---- MODULE Spec2Model ----
(***************************************************************************)
(* Job-application demo (React Native Web): the multi-step form with       *)
(* dependent dropdowns (JobApplicationForm), the dropdown component        *)
(* (CustomDropdown), the validation schemas and the App shell that owns    *)
(* the view switch, the record being edited and the saved drafts, and the  *)
(* two applications lists (ApplicationsList, ApplicationsListResponsive)   *)
(* with the useResponsive hook.                                            *)
(*                                                                         *)
(* Text values are tuples of one-character strings, so that the length     *)
(* and pattern rules of the schemas are computed, not assumed.             *)
(* JavaScript null/undefined/0 of an id are all "falsy": an absent id or   *)
(* an unselected option is 0, an absent record is the empty sequence.      *)
(***************************************************************************)
EXTENDS Integers, Sequences, FiniteSets, TLC

(***************************************************************************)
(* Bounds of the exploration.                                              *)
(***************************************************************************)
\* the user picks among the first MaxParent countries / industries
MaxParent == 2
\* the user picks among the first MaxPick options of an open dropdown
MaxPick == 1
\* handlers suspended at an await at the same time
MaxPending == 1
\* clock ticks (milliseconds) that pass during a run
MaxTicks == 1
\* records the saved-drafts collection may grow to
MaxDrafts == 2
\* records of the list the user opens through Edit (the first ones)
MaxEditable == 1
\* list rows the Edit button is pressed on where submits are followed
MaxSubmitEditable == 2
\* longest record list handed to the applications list
MaxRows == 11
\* Next presses suspended at the same time where only the steps are followed
MaxNexts == 2
\* widest window (in pixels) the breakpoints are explored with
MaxWidth == 1100

(***************************************************************************)
(* Small helpers.                                                          *)
(***************************************************************************)
Range(s) == {s[i] : i \in DOMAIN s}

\* JavaScript object spread { ...a, ...b }
Merge(a, b) ==
  [k \in (DOMAIN a) \cup (DOMAIN b) |-> IF k \in DOMAIN b THEN b[k] ELSE a[k]]

\* Array.prototype.slice(0, n)
Prefix(s, n) == SubSeq(s, 1, IF Len(s) < n THEN Len(s) ELSE n)

(***************************************************************************)
(* mockData.js                                                             *)
(***************************************************************************)
countries == <<1, 2, 3, 4, 5>>

citiesByCountry ==
  [c \in 1..5 |->
     CASE c = 1 -> <<101, 102, 103, 104>>
       [] c = 2 -> <<201, 202, 203>>
       [] c = 3 -> <<301, 302, 303>>
       [] c = 4 -> <<401, 402, 403>>
       [] c = 5 -> <<501, 502, 503>>]

industries == <<1, 2, 3, 4, 5>>

rolesByIndustry ==
  [i \in 1..5 |->
     CASE i = 1 -> <<101, 102, 103, 104>>
       [] i = 2 -> <<201, 202, 203>>
       [] i = 3 -> <<301, 302, 303>>
       [] i = 4 -> <<401, 402, 403>>
       [] i = 5 -> <<501, 502, 503>>]

\* minSalary of each role option
minSalary ==
  [r \in {101, 102, 103, 104, 201, 202, 203, 301, 302, 303,
          401, 402, 403, 501, 502, 503} |->
     CASE r = 101 -> 80000 [] r = 102 -> 90000 [] r = 103 -> 85000
       [] r = 104 -> 95000 [] r = 201 -> 60000 [] r = 202 -> 40000
       [] r = 203 -> 50000 [] r = 301 -> 70000 [] r = 302 -> 65000
       [] r = 303 -> 100000 [] r = 401 -> 45000 [] r = 402 -> 70000
       [] r = 403 -> 55000 [] r = 501 -> 65000 [] r = 502 -> 70000
       [] r = 503 -> 75000]

experienceLevels == <<1, 2, 3, 4>>

\* the records of the listing (city, industry and experience, which no
\* handler reads, are left out)
mockApplications ==
  <<
     [id |-> 1,
      firstName |-> <<"J","o","h","n">>,
      lastName |-> <<"D","o","e">>,
      email |-> <<"j","o","h","n",".","d","o","e","@","e","x","a","m","p","l","e",".","c","o","m">>,
      country |-> "United States", role |-> "Software Engineer",
      salary |-> 120000, status |-> "submitted", createdAt |-> "2024-11-01T10:30:00Z"],
     [id |-> 2,
      firstName |-> <<"J","a","n","e">>,
      lastName |-> <<"S","m","i","t","h">>,
      email |-> <<"j","a","n","e",".","s","m","i","t","h","@","e","x","a","m","p","l","e",".","c","o","m">>,
      country |-> "Canada", role |-> "Financial Analyst",
      salary |-> 85000, status |-> "draft", createdAt |-> "2024-11-03T14:20:00Z"],
     [id |-> 3,
      firstName |-> <<"R","o","b","e","r","t">>,
      lastName |-> <<"J","o","h","n","s","o","n">>,
      email |-> <<"r","o","b","e","r","t",".","j","@","e","x","a","m","p","l","e",".","c","o","m">>,
      country |-> "United Kingdom", role |-> "Nurse",
      salary |-> 62000, status |-> "submitted", createdAt |-> "2024-11-05T09:15:00Z"],
     [id |-> 4,
      firstName |-> <<"M","a","r","i","a">>,
      lastName |-> <<"G","a","r","c","i","a">>,
      email |-> <<"m","a","r","i","a",".","g","a","r","c","i","a","@","e","x","a","m","p","l","e",".","c","o","m">>,
      country |-> "Germany", role |-> "Data Scientist",
      salary |-> 145000, status |-> "submitted", createdAt |-> "2024-11-07T11:45:00Z"],
     [id |-> 5,
      firstName |-> <<"P","i","e","r","r","e">>,
      lastName |-> <<"D","u","p","o","n","t">>,
      email |-> <<"p","i","e","r","r","e",".","d","u","p","o","n","t","@","e","x","a","m","p","l","e",".","c","o","m">>,
      country |-> "France", role |-> "Professor",
      salary |-> 78000, status |-> "draft", createdAt |-> "2024-11-08T16:00:00Z"] >>

\* citiesByCountry[id] || []
CitiesOf(id) == IF id \in DOMAIN citiesByCountry THEN citiesByCountry[id] ELSE <<>>

\* rolesByIndustry[id] || []
RolesOf(id) == IF id \in DOMAIN rolesByIndustry THEN rolesByIndustry[id] ELSE <<>>

(***************************************************************************)
(* utils/validation.js: the zod schemas, as the set of fields of a value   *)
(* set that violate their rule.                                            *)
(***************************************************************************)
Letters ==
  {"a","b","c","d","e","f","g","h","i","j","k","l","m","n","o","p","q","r",
   "s","t","u","v","w","x","y","z","A","B","C","D","E","F","G","H","I","J",
   "K","L","M","N","O","P","Q","R","S","T","U","V","W","X","Y","Z"}

Digits == {"0","1","2","3","4","5","6","7","8","9"}

\* z.string().min(n)
MinLen(s, n) == Len(s) >= n

\* z.number().min(n)
MinNum(x, n) == x >= n

\* z.string().email(): local part, one @, dotted domain ending in a
\* top-level label of two or more letters
IsEmail(s) ==
  \E at \in 1..Len(s) :
    /\ s[at] = "@"
    /\ \A i \in 1..Len(s) : s[i] = "@" => i = at
    /\ at > 1
    /\ s[1] # "."
    /\ \A i \in 1..(Len(s) - 1) : ~(s[i] = "." /\ s[i + 1] = ".")
    /\ \A i \in 1..(at - 1) : s[i] \in Letters \cup Digits \cup {"_", "'", "+", "-", "."}
    /\ s[at - 1] \in Letters \cup Digits \cup {"_", "+", "-"}
    /\ at < Len(s)
    /\ s[at + 1] \in Letters \cup Digits
    /\ \A i \in (at + 1)..Len(s) : s[i] \in Letters \cup Digits \cup {"-", "."}
    /\ \A i \in (at + 1)..(Len(s) - 1) : s[i] = "." => s[i + 1] \in Letters \cup Digits
    /\ \E dot \in (at + 2)..(Len(s) - 2) :
         /\ s[dot] = "."
         /\ \A i \in (dot + 1)..Len(s) : s[i] \in Letters

\* z.string().regex(/^\+?[\d\s-()]+$/)
IsPhone(s) ==
  LET from == IF Len(s) > 0 /\ s[1] = "+" THEN 2 ELSE 1
  IN  /\ from <= Len(s)
      /\ \A i \in from..Len(s) : s[i] \in Digits \cup {" ", "-", "(", ")"}

\* mutant: a schema that stops at the first field that fails
personalInfoSchemaFirstOnly(v) ==
  IF ~MinLen(v.firstName, 2) THEN {"firstName"}
  ELSE IF ~MinLen(v.lastName, 2) THEN {"lastName"}
  ELSE IF ~IsEmail(v.email) THEN {"email"}
  ELSE IF ~IsPhone(v.phone) THEN {"phone"}
  ELSE {}

personalInfoSchema(v) ==
  {f \in {"firstName"} : ~MinLen(v.firstName, 2)}
    \cup {f \in {"lastName"} : ~MinLen(v.lastName, 2)}
    \cup {f \in {"email"} : ~IsEmail(v.email)}
    \cup {f \in {"phone"} : ~IsPhone(v.phone)}

locationSchema(v) ==
  {f \in {"countryId"} : ~MinNum(v.countryId, 1)}
    \cup {f \in {"cityId"} : ~MinNum(v.cityId, 1)}
    \cup {f \in {"address"} : ~MinLen(v.address, 5)}
    \cup {f \in {"postalCode"} : ~MinLen(v.postalCode, 3)}

\* mutant: a refine() that compares the salary with the role's minimum
professionalInfoSchemaWithMinimum(v) ==
  {f \in {"industryId"} : ~MinNum(v.industryId, 1)}
    \cup {f \in {"roleId"} : ~MinNum(v.roleId, 1)}
    \cup {f \in {"experienceId"} : ~MinNum(v.experienceId, 1)}
    \cup {f \in {"expectedSalary"} :
            \/ ~MinNum(v.expectedSalary, 1)
            \/ v.roleId \in DOMAIN minSalary /\ v.expectedSalary < minSalary[v.roleId]}

\* the refine() of the schema returns true: it adds no rule
professionalInfoSchema(v) ==
  {f \in {"industryId"} : ~MinNum(v.industryId, 1)}
    \cup {f \in {"roleId"} : ~MinNum(v.roleId, 1)}
    \cup {f \in {"experienceId"} : ~MinNum(v.experienceId, 1)}
    \cup {f \in {"expectedSalary"} : ~MinNum(v.expectedSalary, 1)}

\* the fields each schema declares (zod strips every other key)
SchemaFields(s) ==
  CASE s = 2 -> {"countryId", "cityId", "address", "postalCode"}
    [] s = 3 -> {"industryId", "roleId", "experienceId", "expectedSalary"}
    [] OTHER -> {"firstName", "lastName", "email", "phone"}

\* getStepSchema(), applied: the resolver of the step
getStepSchema(s, v) ==
  CASE s = 2 -> locationSchema(v)
    [] s = 3 -> professionalInfoSchema(v)
    [] OTHER -> personalInfoSchema(v)

(***************************************************************************)
(* utils/useResponsive.js: the breakpoints.                                *)
(***************************************************************************)
BREAKPOINTS == [mobile |-> 0, tablet |-> 768, desktop |-> 1024, wide |-> 1440]

(***************************************************************************)
(* Array.prototype.sort of the JavaScript engine that runs the build.  The *)
(* comparator of the lists never returns 0: for two records with the same  *)
(* key it answers -1 whichever is asked first, so it is not a consistent   *)
(* comparator and the order of such records is left to the engine.  On the *)
(* short arrays of a list, engines sort by insertion; they differ in the   *)
(* question they ask the comparator:                                       *)
(*   "newVsOld"  comparefn(new, old) < 0 moves the new element ahead of    *)
(*               the old one (V8's binary insertion sort);                 *)
(*   "oldVsNew"  comparefn(old, new) > 0 moves the old element behind the  *)
(*               new one (SpiderMonkey's insertion sort).                  *)
(***************************************************************************)
SortEngines == {"newVsOld", "oldVsNew"}

(***************************************************************************)
(* State.                                                                  *)
(***************************************************************************)
VARIABLES
  view,               \* App: "list" or "form"
  editingApplication, \* App: <<>> (null) or <<record>>
  savedDrafts,        \* App: sequence of draft records
  now,                \* the clock read by Date.now() / new Date()
  submitted,          \* <<the record handed to onSubmit>> by the form last
                      \* closed, <<>> once another form is opened
  lastDraft,          \* <<the draft last logged by handleSaveDraft>> for the
                      \* form in the tree, <<>> when it has saved none
  alerted,            \* the message of the last alert() / Alert.alert(), <<>>
                      \* before the first
  step,               \* form: current step (0 while the form is not mounted)
  formData,           \* form: values accumulated by Next / Previous
  values,             \* form: react-hook-form's field values (watch())
  availableCities,    \* form: option list of the city dropdown
  availableRoles,     \* form: option list of the role dropdown
  selectedRole,       \* form: id of the selected role option, 0 for null
  isOpen,             \* form: name of the dropdown whose modal is open, or ""
  effects,            \* form: useEffect callbacks scheduled by the last render
  pending,            \* form: handlers suspended at their await, oldest first
  applications,       \* list: the records (useState(mockApplications))
  currentPage,        \* list: page shown
  sortField,          \* list: key of the active sort
  sortDirection,      \* list: "asc" or "desc"
  filterStatus,       \* list: "all", "submitted" or "draft"
  sortEngine,         \* the build's engine: how Array.prototype.sort inserts
  width,              \* useResponsive: dimensions.window.width
  responsiveList      \* ApplicationsListResponsive: its currentPage,
                      \* sortField, sortDirection and filterStatus

appVars == <<view, editingApplication, savedDrafts, now, submitted, lastDraft,
             alerted>>
formVars == <<step, formData, values, availableCities, availableRoles,
              selectedRole, isOpen, effects, pending>>
listVars == <<applications, currentPage, sortField, sortDirection, filterStatus,
              sortEngine, width, responsiveList>>
vars == <<view, editingApplication, savedDrafts, now, submitted, lastDraft,
          alerted, step, formData, values, availableCities, availableRoles, selectedRole, isOpen,
          effects, pending, applications, currentPage, sortField, sortDirection,
          filterStatus, sortEngine, width, responsiveList>>

\* useState initial values of ApplicationsListResponsive
responsiveInitial ==
  [currentPage |-> 1, sortField |-> "createdAt", sortDirection |-> "desc",
   filterStatus |-> "all"]

\* useState initial values of the applications lists showing the records
\* data in a window as wide as one of widths, on any of the engines
ListInit(data, widths) ==
  /\ applications = data
  /\ currentPage = 1
  /\ sortField = "createdAt"
  /\ sortDirection = "desc"
  /\ filterStatus = "all"
  /\ sortEngine \in SortEngines
  /\ width \in widths
  /\ responsiveList = responsiveInitial

\* the list leaves or enters the tree: a list mounted again starts from its
\* useState initial values
ListReset ==
  /\ applications' = applications
  /\ currentPage' = 1
  /\ sortField' = "createdAt"
  /\ sortDirection' = "desc"
  /\ filterStatus' = "all"
  /\ responsiveList' = responsiveInitial
  /\ UNCHANGED <<sortEngine, width>>

\* useState initial value of formData, before ...initialData
emptyFormData ==
  [firstName |-> <<>>, lastName |-> <<>>, email |-> <<>>, phone |-> <<>>,
   countryId |-> 0, cityId |-> 0, address |-> <<>>, postalCode |-> <<>>,
   industryId |-> 0, roleId |-> 0, experienceId |-> 0, expectedSalary |-> 0]

\* initialData prop: editingApplication, null spreading to nothing
InitialData(editing) == IF editing = <<>> THEN <<>> ELSE editing[1]

\* useState initial value of formData: { ...defaults, ...initialData }
initialFormData(editing) ==
  IF editing = <<>> THEN emptyFormData
  ELSE Merge(emptyFormData, InitialData(editing))

\* first render of a JobApplicationForm: useState initial values, useForm
\* defaultValues, and the three effects scheduled by the mount
Mount(editing) ==
  /\ step' = 1
  /\ formData' = initialFormData(editing)
  /\ values' = initialFormData(editing)
  /\ availableCities' = <<>>
  /\ availableRoles' = <<>>
  /\ selectedRole' = 0
  /\ isOpen' = ""
  /\ effects' = {"country", "industry", "role"}
  /\ pending' = <<>>

\* the form leaves the tree: its state is dropped, and what its suspended
\* handlers set afterwards has no effect
Unmount ==
  /\ step' = 0
  /\ formData' = emptyFormData
  /\ values' = emptyFormData
  /\ availableCities' = <<>>
  /\ availableRoles' = <<>>
  /\ selectedRole' = 0
  /\ isOpen' = ""
  /\ effects' = {}
  /\ pending' = <<>>

Init ==
  /\ view = "list"
  /\ editingApplication = <<>>
  /\ savedDrafts = <<>>
  /\ now = 1000
  /\ submitted = <<>>
  /\ lastDraft = <<>>
  /\ alerted = <<>>
  /\ step = 0
  /\ formData = emptyFormData
  /\ values = emptyFormData
  /\ availableCities = <<>>
  /\ availableRoles = <<>>
  /\ selectedRole = 0
  /\ isOpen = ""
  /\ effects = {}
  /\ pending = <<>>
  /\ ListInit(mockApplications, {BREAKPOINTS.desktop})

(***************************************************************************)
(* What the user types and picks.                                          *)
(***************************************************************************)
\* texts typed into each text field
typedWide ==
  [firstName |-> {<<>>, <<"J","o","h","n">>},
   lastName |-> {<<"D","o","e">>},
   email |-> {<<"j","o","h","n",".","d","o","e","@","e","x","a","m","p","l","e",".","c","o","m">>},
   phone |-> {<<"5", "5", "5">>},
   address |-> {<<"M", "a", "i", "n", " ", "S", "t">>},
   postalCode |-> {<<"1", "2", "3">>},
   expectedSalary |-> {<<"7", "5", "0", "0", "0">>}]

typedNarrow ==
  [firstName |-> {<<>>},
   lastName |-> {},
   email |-> {},
   phone |-> {<<"5", "5", "5">>},
   address |-> {},
   postalCode |-> {},
   expectedSalary |-> {}]

TextFields == {"firstName", "lastName", "email", "phone", "address", "postalCode"}

\* parseInt(text.replace(/[^0-9]/g, '')) || 0
RECURSIVE ParseDigits(_, _)
ParseDigits(t, acc) ==
  IF t = <<>> THEN acc
  ELSE LET d == CHOOSE n \in 0..10 :
                  IF Head(t) \in Digits
                  THEN <<"0","1","2","3","4","5","6","7","8","9">>[n + 1] = Head(t)
                  ELSE n = 10
       IN  ParseDigits(Tail(t), IF d = 10 THEN acc ELSE 10 * acc + d)

parseSalary(text) == ParseDigits(text, 0)

(***************************************************************************)
(* JobApplicationForm: rendering.                                          *)
(***************************************************************************)
\* mutant: the disabled prop without the test of the option list
cityDisabledSourceOnly == values.countryId = 0

\* disabled prop of the city dropdown: !watchCountry || availableCities.length === 0
cityDisabled == values.countryId = 0 \/ Len(availableCities) = 0

\* disabled prop of the role dropdown: !watchIndustry || availableRoles.length === 0
roleDisabled == values.industryId = 0 \/ Len(availableRoles) = 0

\* the dropdowns rendered in the current step, with their options and
\* disabled props
Dropdowns ==
  CASE step = 2 ->
         [countryId |-> [options |-> countries, disabled |-> FALSE],
          cityId |-> [options |-> availableCities, disabled |-> cityDisabled]]
    [] step = 3 ->
         [industryId |-> [options |-> industries, disabled |-> FALSE],
          roleId |-> [options |-> availableRoles, disabled |-> roleDisabled],
          experienceId |-> [options |-> experienceLevels, disabled |-> FALSE]]
    [] OTHER -> <<>>

\* mutant: a render that never computes a salary error
salaryErrorNone == <<>>

\* salaryError of the current render: the message naming the role and its
\* minimum, or <<>> for null
salaryError ==
  IF /\ selectedRole # 0
     /\ values.expectedSalary # 0
     /\ values.expectedSalary < minSalary[selectedRole]
  THEN <<"Minimum salary for", selectedRole, "is $", minSalary[selectedRole]>>
  ELSE <<>>

\* an input event is handled once the effects of the last render have run
\* and while no modal covers the screen
Idle == view = "form" /\ effects = {} /\ isOpen = ""

\* the effects a render schedules: those whose dependency changed
Scheduled(old, new) ==
  {e \in {"country"} : old.countryId # new.countryId}
    \cup {e \in {"industry"} : old.industryId # new.industryId}
    \cup {e \in {"role"} : old.roleId # new.roleId}

(***************************************************************************)
(* JobApplicationForm: field input.                                        *)
(***************************************************************************)
\* TextInput onChangeText -> Controller onChange
ChangeText(typed) ==
  /\ Idle
  /\ \E f \in SchemaFields(step) \cap TextFields : \E t \in typed[f] :
       values' = [values EXCEPT ![f] = t]
  /\ UNCHANGED <<step, formData, availableCities, availableRoles, selectedRole,
                 isOpen, effects, pending>>
  /\ UNCHANGED appVars
  /\ UNCHANGED listVars

\* expected-salary TextInput onChangeText
ChangeSalary(typed) ==
  /\ Idle
  /\ step = 3
  /\ \E t \in typed.expectedSalary :
       values' = [values EXCEPT !.expectedSalary = parseSalary(t)]
  /\ UNCHANGED <<step, formData, availableCities, availableRoles, selectedRole,
                 isOpen, effects, pending>>
  /\ UNCHANGED appVars
  /\ UNCHANGED listVars

\* CustomDropdown select button onPress: () => !disabled && setIsOpen(true)
OpenDropdown ==
  /\ Idle
  /\ \E f \in DOMAIN Dropdowns :
       /\ ~Dropdowns[f].disabled
       /\ isOpen' = f
  /\ UNCHANGED <<step, formData, values, availableCities, availableRoles,
                 selectedRole, effects, pending>>
  /\ UNCHANGED appVars
  /\ UNCHANGED listVars

\* CustomDropdown modal overlay onPress / onRequestClose
CloseDropdown ==
  /\ view = "form"
  /\ effects = {}
  /\ isOpen # ""
  /\ isOpen' = ""
  /\ UNCHANGED <<step, formData, values, availableCities, availableRoles,
                 selectedRole, effects, pending>>
  /\ UNCHANGED appVars
  /\ UNCHANGED listVars

\* CustomDropdown handleSelect(option): onSelect(option.id), setIsOpen(false)
handleSelect(parents, picks) ==
  /\ view = "form"
  /\ effects = {}
  /\ isOpen # ""
  /\ isOpen \in DOMAIN Dropdowns
  /\ LET options == Dropdowns[isOpen].options
         shown == IF isOpen \in {"countryId", "industryId"}
                  THEN Prefix(options, parents) ELSE Prefix(options, picks)
     IN  \E id \in Range(shown) :
           /\ values' = [values EXCEPT ![isOpen] = id]
           /\ effects' = Scheduled(values, values')
  /\ isOpen' = ""
  /\ UNCHANGED <<step, formData, availableCities, availableRoles, selectedRole,
                 pending>>
  /\ UNCHANGED appVars
  /\ UNCHANGED listVars

(***************************************************************************)
(* JobApplicationForm: the three useEffect callbacks.  Each is given the   *)
(* render it closes over (r: the watched values and state of that render)  *)
(* and the live field values (v), and returns the live values and state    *)
(* after it.                                                               *)
(***************************************************************************)
\* options.find(o => o.id === id), as a truth value
Exists(options, id) == \E i \in DOMAIN options : options[i] = id

\* mutant: the country effect without the reset of the city
countryEffectKeepsCity(r, st) ==
  [st EXCEPT !.availableCities =
     IF r.values.countryId > 0 THEN CitiesOf(r.values.countryId) ELSE <<>>]

\* useEffect(..., [watchCountry])
countryEffect(r, st) ==
  IF r.values.countryId > 0
  THEN LET cities == CitiesOf(r.values.countryId)
           currentCity == st.values.cityId
       IN  [st EXCEPT
              !.availableCities = cities,
              !.values = IF ~Exists(cities, currentCity) /\ currentCity # 0
                         THEN [@ EXCEPT !.cityId = 0] ELSE @]
  ELSE [st EXCEPT !.availableCities = <<>>,
                  !.values = [@ EXCEPT !.cityId = 0]]

\* useEffect(..., [watchIndustry])
industryEffect(r, st) ==
  IF r.values.industryId > 0
  THEN LET roles == RolesOf(r.values.industryId)
           currentRole == st.values.roleId
       IN  IF ~Exists(roles, currentRole) /\ currentRole # 0
           THEN [st EXCEPT !.availableRoles = roles,
                           !.values = [@ EXCEPT !.roleId = 0],
                           !.selectedRole = 0]
           ELSE [st EXCEPT !.availableRoles = roles]
  ELSE [st EXCEPT !.availableRoles = <<>>,
                  !.values = [@ EXCEPT !.roleId = 0],
                  !.selectedRole = 0]

\* useEffect(..., [watchRole, availableRoles])
roleEffect(r, st) ==
  IF r.values.roleId > 0
  THEN [st EXCEPT !.selectedRole =
          IF Exists(r.availableRoles, r.values.roleId) THEN r.values.roleId ELSE 0]
  ELSE [st EXCEPT !.selectedRole = 0]

\* mutant: a role effect that depends on watchRole alone, and is not run
\* again when the industry effect has set the option list
RunEffectsRoleOnce ==
  /\ view = "form"
  /\ effects # {}
  /\ LET r == [values |-> values, availableCities |-> availableCities,
               availableRoles |-> availableRoles, selectedRole |-> selectedRole]
         s1 == IF "country" \in effects THEN countryEffect(r, r) ELSE r
         s2 == IF "industry" \in effects THEN industryEffect(r, s1) ELSE s1
         s3 == IF "role" \in effects THEN roleEffect(r, s2) ELSE s2
     IN  /\ values' = s3.values
         /\ availableCities' = s3.availableCities
         /\ availableRoles' = s3.availableRoles
         /\ selectedRole' = s3.selectedRole
         /\ effects' = Scheduled(values, s3.values)
  /\ UNCHANGED <<step, formData, isOpen, pending>>
  /\ UNCHANGED appVars
  /\ UNCHANGED listVars

\* the effects of one render run in declaration order, their state updates
\* are batched, and the next render schedules the effects whose dependencies
\* changed (availableRoles is a new array whenever the industry effect ran)
RunEffects ==
  /\ view = "form"
  /\ effects # {}
  /\ LET r == [values |-> values, availableCities |-> availableCities,
               availableRoles |-> availableRoles, selectedRole |-> selectedRole]
         s1 == IF "country" \in effects THEN countryEffect(r, r) ELSE r
         s2 == IF "industry" \in effects THEN industryEffect(r, s1) ELSE s1
         s3 == IF "role" \in effects THEN roleEffect(r, s2) ELSE s2
     IN  /\ values' = s3.values
         /\ availableCities' = s3.availableCities
         /\ availableRoles' = s3.availableRoles
         /\ selectedRole' = s3.selectedRole
         /\ effects' = Scheduled(values, s3.values)
                         \cup {e \in {"role"} : "industry" \in effects}
  /\ UNCHANGED <<step, formData, isOpen, pending>>
  /\ UNCHANGED appVars
  /\ UNCHANGED listVars

(***************************************************************************)
(* JobApplicationForm: navigation.  handleNext is async: trigger() runs    *)
(* the step's resolver on the values of the moment it is called, and the   *)
(* rest of the handler runs when the promise resolves, with the step and   *)
(* formData of the render whose button was pressed.                        *)
(***************************************************************************)
\* handleNext up to `await trigger()`, with fewer than limit handlers
\* suspended
NextStartWithin(limit) ==
  /\ Idle
  /\ step < 3
  /\ Len(pending) < limit
  /\ pending' = Append(pending,
       [kind |-> "next",
        isValid |-> getStepSchema(step, values) = {},
        step |-> step,
        formData |-> formData,
        data |-> <<>>,
        salaryError |-> <<>>])
  /\ UNCHANGED <<step, formData, values, availableCities, availableRoles,
                 selectedRole, isOpen, effects>>
  /\ UNCHANGED appVars
  /\ UNCHANGED listVars

\* handleNext up to `await trigger()`
NextStart == NextStartWithin(MaxPending)

\* mutant: the rest of handleNext without the test of isValid
handleNextResumeUnchecked(p) ==
  /\ formData' = Merge(p.formData, values)
  /\ step' = p.step + 1
  /\ isOpen' = IF step' = step THEN isOpen ELSE ""
  /\ UNCHANGED alerted

\* mutant: the rest of handleNext counting from the step of the moment
handleNextResumeCurrentStep(p) ==
  IF ~p.isValid
  THEN /\ alerted' = <<"Please fix the errors before continuing">>
       /\ UNCHANGED <<step, formData, isOpen>>
  ELSE /\ formData' = Merge(p.formData, values)
       /\ step' = step + 1
       /\ isOpen' = IF step' = step THEN isOpen ELSE ""
       /\ UNCHANGED alerted

\* handleNext after the await: p is the suspended call
handleNextResume(p) ==
  IF ~p.isValid
  THEN /\ alerted' = <<"Please fix the errors before continuing">>
       /\ UNCHANGED <<step, formData, isOpen>>
  ELSE /\ formData' = Merge(p.formData, values)
       /\ step' = p.step + 1
       /\ isOpen' = IF step' = step THEN isOpen ELSE ""
       /\ UNCHANGED alerted

NextFinish ==
  /\ view = "form"
  /\ effects = {}
  /\ pending # <<>>
  /\ Head(pending).kind = "next"
  /\ handleNextResume(Head(pending))
  /\ pending' = Tail(pending)
  /\ UNCHANGED <<values, availableCities, availableRoles, selectedRole, effects>>
  /\ UNCHANGED <<view, editingApplication, savedDrafts, now, submitted, lastDraft>>
  /\ UNCHANGED listVars

\* mutant: Previous that validates the step it leaves
handlePreviousValidated ==
  /\ Idle
  /\ step > 1
  /\ getStepSchema(step, values) = {}
  /\ formData' = Merge(formData, values)
  /\ step' = step - 1
  /\ UNCHANGED <<values, availableCities, availableRoles, selectedRole, isOpen,
                 effects, pending>>
  /\ UNCHANGED appVars
  /\ UNCHANGED listVars

\* handlePrevious (the button is rendered when step > 1)
handlePrevious ==
  /\ Idle
  /\ step > 1
  /\ formData' = Merge(formData, values)
  /\ step' = step - 1
  /\ UNCHANGED <<values, availableCities, availableRoles, selectedRole, isOpen,
                 effects, pending>>
  /\ UNCHANGED appVars
  /\ UNCHANGED listVars

(***************************************************************************)
(* App.js: the handlers handed to the form, and the navigation bar.        *)
(***************************************************************************)
\* editingApplication?.id || Date.now()
draftId(editing, clock) ==
  IF editing # <<>> /\ "id" \in DOMAIN editing[1] /\ editing[1].id # 0
  THEN editing[1].id ELSE clock

\* mutant: the draft tagged as a submission
makeDraftSubmitted(data, editing, clock) ==
  Merge(data, [id |-> draftId(editing, clock), status |-> "submitted", savedAt |-> clock])

\* the draft record handleSaveDraft builds from the form's data
makeDraft(data, editing, clock) ==
  Merge(data, [id |-> draftId(editing, clock), status |-> "draft", savedAt |-> clock])

\* mutant: the updater without the search for the id
saveDraftUpdaterAppend(prev, draft) == Append(prev, draft)

\* the updater handed to setSavedDrafts: replace the record with the same
\* id, else append
saveDraftUpdater(prev, draft) ==
  IF \E i \in DOMAIN prev : prev[i].id = draft.id
  THEN LET existingIndex == CHOOSE i \in DOMAIN prev :
                              /\ prev[i].id = draft.id
                              /\ \A j \in 1..(i - 1) : prev[j].id # draft.id
       IN  [prev EXCEPT ![existingIndex] = draft]
  ELSE Append(prev, draft)

\* form handleSaveDraft -> onSaveDraft -> App handleSaveDraft
handleSaveDraft ==
  /\ Idle
  /\ LET draftData == Merge(formData, values)
         draft == makeDraft(draftData, editingApplication, now)
     IN  /\ savedDrafts' = saveDraftUpdater(savedDrafts, draft)
         /\ Len(savedDrafts') <= MaxDrafts
         /\ lastDraft' = <<draft>>
  /\ alerted' = <<"Draft saved successfully!">>
  /\ UNCHANGED <<view, editingApplication, now, submitted>>
  /\ UNCHANGED formVars
  /\ UNCHANGED listVars

\* time passes
Tick ==
  /\ now < 1000 + MaxTicks
  /\ now' = now + 1
  /\ UNCHANGED <<view, editingApplication, savedDrafts, submitted, lastDraft,
                 alerted>>
  /\ UNCHANGED formVars
  /\ UNCHANGED listVars

\* handleSubmit(handleFinalSubmit) up to the await of the resolver: the data
\* is the schema's output (its declared keys), and handleFinalSubmit is the
\* one of the render whose button was pressed
SubmitStart ==
  /\ Idle
  /\ step = 3
  /\ Len(pending) < MaxPending
  /\ pending' = Append(pending,
       [kind |-> "submit",
        isValid |-> getStepSchema(step, values) = {},
        step |-> step,
        formData |-> formData,
        data |-> [k \in SchemaFields(step) |-> values[k]],
        salaryError |-> salaryError])
  /\ UNCHANGED <<step, formData, values, availableCities, availableRoles,
                 selectedRole, isOpen, effects>>
  /\ UNCHANGED appVars
  /\ UNCHANGED listVars

\* handleFinalSubmit(data) -> onSubmit -> App handleSubmitApplication
SubmitFinish ==
  /\ view = "form"
  /\ effects = {}
  /\ pending # <<>>
  /\ Head(pending).kind = "submit"
  /\ LET p == Head(pending)
     IN  IF ~p.isValid \/ p.salaryError # <<>>
         THEN /\ pending' = Tail(pending)
              /\ alerted' = IF p.isValid THEN p.salaryError ELSE alerted
              /\ UNCHANGED <<step, formData, values, availableCities,
                             availableRoles, selectedRole, isOpen, effects>>
              /\ UNCHANGED <<view, editingApplication, savedDrafts, now,
                             submitted, lastDraft>>
         ELSE /\ submitted' = <<Merge(p.formData, p.data)>>
              /\ alerted' = <<"Application submitted successfully!">>
              /\ view' = "list"
              /\ editingApplication' = <<>>
              /\ Unmount
              /\ UNCHANGED <<savedDrafts, now, lastDraft>>
  /\ IF view' = "list" THEN ListReset ELSE UNCHANGED listVars

\* "Applications List" button: setView('list')
ShowList ==
  /\ Idle
  /\ view' = "list"
  /\ Unmount
  /\ UNCHANGED <<editingApplication, savedDrafts, now, submitted, lastDraft,
                 alerted>>
  /\ ListReset

\* "New Application" button: setEditingApplication(null), setView('form').
\* A form that is already in the tree stays mounted and keeps its state.
NewApplication ==
  /\ view = "list" \/ Idle
  /\ editingApplication' = <<>>
  /\ view' = "form"
  /\ IF view = "list"
     THEN Mount(<<>>) /\ submitted' = <<>> /\ lastDraft' = <<>>
     ELSE UNCHANGED formVars /\ UNCHANGED <<submitted, lastDraft>>
  /\ UNCHANGED <<savedDrafts, now, alerted>>
  /\ ListReset

\* Edit button of a list row: handleEditApplication(item)
handleEditApplication(editable) ==
  /\ view = "list"
  /\ \E i \in 1..editable :
       /\ i \in DOMAIN mockApplications
       /\ editingApplication' = <<mockApplications[i]>>
       /\ Mount(<<mockApplications[i]>>)
  /\ view' = "form"
  /\ submitted' = <<>>
  /\ lastDraft' = <<>>
  /\ UNCHANGED <<savedDrafts, now, alerted>>
  /\ ListReset

(***************************************************************************)
(* Specifications.                                                         *)
(***************************************************************************)
FormInput(typed) ==
  \/ ChangeText(typed)
  \/ ChangeSalary(typed)
  \/ OpenDropdown
  \/ CloseDropdown
  \/ handleSelect(MaxParent, MaxPick)

FormNav ==
  \/ RunEffects
  \/ NextStart
  \/ NextFinish
  \/ handlePrevious

Navigate ==
  \/ ShowList
  \/ NewApplication
  \/ handleEditApplication(MaxEditable)

\* the form under field input and step navigation, opened from the App
NextForm == FormInput(typedWide) \/ FormNav \/ Navigate

SpecForm == Init /\ [][NextForm]_vars

\* the App with its drafts and the clock, the form under text input and
\* step navigation
Next == ChangeText(typedNarrow) \/ FormNav \/ Navigate \/ handleSaveDraft \/ Tick

Spec == Init /\ [][Next]_vars

\* initialData a caller other than the list may hand to the form: nothing,
\* or a record that carries form fields, such as a saved draft, with
\* consistent selections, with selections of another parent, and with ids
\* the option tables do not know
propsData ==
  LET rec == Merge(mockApplications[1],
                   [phone |-> <<"5", "5", "5">>,
                    address |-> <<"M", "a", "i", "n", " ", "S", "t">>,
                    postalCode |-> <<"1", "2", "3">>,
                    experienceId |-> 1, expectedSalary |-> 75000])
  IN  { <<>>,
        <<mockApplications[1]>>,
        <<Merge(rec, [countryId |-> 1, cityId |-> 101, industryId |-> 1, roleId |-> 101])>>,
        <<Merge(rec, [countryId |-> 1, cityId |-> 201, industryId |-> 2, roleId |-> 101])>>,
        <<Merge(rec, [countryId |-> 9, cityId |-> 101, industryId |-> 9, roleId |-> 101])>> }

\* a JobApplicationForm just mounted with one of these initialData
InitProps ==
  /\ view = "form"
  /\ editingApplication \in propsData
  /\ savedDrafts = <<>>
  /\ now = 1000
  /\ submitted = <<>>
  /\ lastDraft = <<>>
  /\ alerted = <<>>
  /\ step = 1
  /\ formData = initialFormData(editingApplication)
  /\ values = initialFormData(editingApplication)
  /\ availableCities = <<>>
  /\ availableRoles = <<>>
  /\ selectedRole = 0
  /\ isOpen = ""
  /\ effects = {"country", "industry", "role"}
  /\ pending = <<>>
  /\ ListInit(mockApplications, {BREAKPOINTS.desktop})

NextProps ==
  \/ ChangeText(typedNarrow)
  \/ OpenDropdown
  \/ CloseDropdown
  \/ handleSelect(MaxParent, MaxPick)
  \/ FormNav

SpecProps == InitProps /\ [][NextProps]_vars

\* the form handed initialData, under presses of Next that overtake each
\* other, Previous, Save as Draft and Submit
NextSteps ==
  \/ ChangeText(typedNarrow)
  \/ RunEffects
  \/ NextStartWithin(MaxNexts)
  \/ NextFinish
  \/ handlePrevious
  \/ handleSaveDraft
  \/ SubmitStart
  \/ SubmitFinish

SpecSteps == InitProps /\ [][NextSteps]_vars

\* texts typed where submits are followed: one valid text per field, and a
\* salary on each side of the first role's minimum
typedSubmit ==
  [firstName |-> {<<"J","o","h","n">>},
   lastName |-> {<<"D","o","e">>},
   email |-> {<<"j","o","h","n",".","d","o","e","@","e","x","a","m","p","l","e",".","c","o","m">>},
   phone |-> {<<"5", "5", "5">>},
   address |-> {<<"M", "a", "i", "n", " ", "S", "t">>},
   postalCode |-> {<<"1", "2", "3">>},
   expectedSalary |-> {<<"7", "5", "0", "0", "0">>, <<"8", "5", "0", "0", "0">>}]

\* the form filled in and submitted, opened as New Application or from a
\* row of the list
NextSubmit ==
  \/ ChangeText(typedSubmit)
  \/ ChangeSalary(typedSubmit)
  \/ OpenDropdown
  \/ CloseDropdown
  \/ handleSelect(MaxPick, MaxPick)
  \/ FormNav
  \/ SubmitStart
  \/ SubmitFinish
  \/ NewApplication
  \/ handleEditApplication(MaxSubmitEditable)

SpecSubmit == Init /\ [][NextSubmit]_vars

\* field values that pass every schema
validValues ==
  [firstName |-> <<"J","o","h","n">>,
   lastName |-> <<"D","o","e">>,
   email |-> <<"j","o","h","n",".","d","o","e","@","e","x","a","m","p","l","e",".","c","o","m">>,
   phone |-> <<"5", "5", "5">>,
   countryId |-> 1, cityId |-> 101,
   address |-> <<"M", "a", "i", "n", " ", "S", "t">>,
   postalCode |-> <<"1", "2", "3">>,
   industryId |-> 1, roleId |-> 101, experienceId |-> 1, expectedSalary |-> 85000]

\* the values handed to the schema of step s: every combination of a few
\* values of each of its fields, on both sides of the field's rule, the
\* dependent selections also outside the options of the parent
schemaInputs(s) ==
  CASE s = 1 ->
         [firstName : {<<>>, <<"J">>, <<"J","o","h","n">>},
          lastName : {<<"D">>, <<"D","o","e">>},
          email : {<<"j","o","h","n">>, validValues.email},
          phone : {<<>>, <<"5", "5", "5">>}]
    [] s = 2 ->
         [countryId : {0, 1, 9},
          cityId : {0, 101, 201},
          address : {<<"M", "a", "i", "n">>, <<"M", "a", "i", "n", " ", "S", "t">>},
          postalCode : {<<>>, <<"1">>, <<"1", "2", "3">>}]
    [] OTHER ->
         [industryId : {0, 1},
          roleId : {0, 101, 201},
          experienceId : {0, 1},
          expectedSalary : {0, 75000, 85000}]

\* a form on one of its steps whose fields hold such values: the step's
\* validation is applied to them by Next and by Submit
InitSchema ==
  /\ view = "form"
  /\ editingApplication = <<>>
  /\ savedDrafts = <<>>
  /\ now = 1000
  /\ submitted = <<>>
  /\ lastDraft = <<>>
  /\ alerted = <<>>
  /\ step \in 1..3
  /\ \E input \in schemaInputs(step) : values = Merge(validValues, input)
  /\ formData = values
  /\ availableCities = CitiesOf(values.countryId)
  /\ availableRoles = RolesOf(values.industryId)
  /\ selectedRole = IF Exists(availableRoles, values.roleId) THEN values.roleId ELSE 0
  /\ isOpen = ""
  /\ effects = {}
  /\ pending = <<>>
  /\ ListInit(mockApplications, {BREAKPOINTS.desktop})

NextSchema ==
  \/ NextStart
  \/ NextFinish
  \/ SubmitStart
  \/ SubmitFinish

SpecSchema == InitSchema /\ [][NextSchema]_vars

(***************************************************************************)
(* JavaScript strings: toLowerCase and the relational operators, which     *)
(* compare strings code unit by code unit.                                 *)
(***************************************************************************)
upperCase ==
  <<"A","B","C","D","E","F","G","H","I","J","K","L","M",
    "N","O","P","Q","R","S","T","U","V","W","X","Y","Z">>

lowerCase ==
  <<"a","b","c","d","e","f","g","h","i","j","k","l","m",
    "n","o","p","q","r","s","t","u","v","w","x","y","z">>

digitChars == <<"0","1","2","3","4","5","6","7","8","9">>

\* String.prototype.charCodeAt of the characters the records are written in
charCode ==
  [c \in Range(upperCase) \cup Range(lowerCase) \cup Range(digitChars)
         \cup {" ", "-", ".", ":", "@"} |->
     CASE c \in Range(upperCase) -> 64 + (CHOOSE i \in 1..26 : upperCase[i] = c)
       [] c \in Range(lowerCase) -> 96 + (CHOOSE i \in 1..26 : lowerCase[i] = c)
       [] c \in Range(digitChars) -> 47 + (CHOOSE i \in 1..10 : digitChars[i] = c)
       [] c = " " -> 32
       [] c = "-" -> 45
       [] c = "." -> 46
       [] c = ":" -> 58
       [] c = "@" -> 64]

\* String.prototype.toLowerCase of one character
lowerOf ==
  [c \in DOMAIN charCode |->
     IF c \in Range(upperCase) THEN lowerCase[charCode[c] - 64] ELSE c]

\* String.prototype.toLowerCase
toLowerCase(text) == [i \in DOMAIN text |-> lowerOf[text[i]]]

\* a < b on two strings: the code units at the first position where they
\* differ decide, a proper prefix is smaller
stringLess(a, b) ==
  LET n == IF Len(a) < Len(b) THEN Len(a) ELSE Len(b)
      differ == {i \in 1..n : a[i] # b[i]}
  IN IF differ = {}
     THEN Len(a) < Len(b)
     ELSE LET i == CHOOSE j \in differ : \A k \in differ : j <= k
          IN charCode[a[i]] < charCode[b[i]]

\* the characters of the string values of the records
spelling ==
  "United States" :> <<"U","n","i","t","e","d"," ","S","t","a","t","e","s">>
  @@ "Canada" :> <<"C","a","n","a","d","a">>
  @@ "United Kingdom" :> <<"U","n","i","t","e","d"," ","K","i","n","g","d","o","m">>
  @@ "Germany" :> <<"G","e","r","m","a","n","y">>
  @@ "France" :> <<"F","r","a","n","c","e">>
  @@ "Software Engineer" :> <<"S","o","f","t","w","a","r","e"," ","E","n","g","i","n","e","e","r">>
  @@ "Financial Analyst" :> <<"F","i","n","a","n","c","i","a","l"," ","A","n","a","l","y","s","t">>
  @@ "Nurse" :> <<"N","u","r","s","e">>
  @@ "Data Scientist" :> <<"D","a","t","a"," ","S","c","i","e","n","t","i","s","t">>
  @@ "Professor" :> <<"P","r","o","f","e","s","s","o","r">>
  @@ "submitted" :> <<"s","u","b","m","i","t","t","e","d">>
  @@ "draft" :> <<"d","r","a","f","t">>
  @@ "2024-11-01T10:30:00Z" :> <<"2","0","2","4","-","1","1","-","0","1","T","1","0",":","3","0",":","0","0","Z">>
  @@ "2024-11-03T14:20:00Z" :> <<"2","0","2","4","-","1","1","-","0","3","T","1","4",":","2","0",":","0","0","Z">>
  @@ "2024-11-05T09:15:00Z" :> <<"2","0","2","4","-","1","1","-","0","5","T","0","9",":","1","5",":","0","0","Z">>
  @@ "2024-11-07T11:45:00Z" :> <<"2","0","2","4","-","1","1","-","0","7","T","1","1",":","4","5",":","0","0","Z">>
  @@ "2024-11-08T16:00:00Z" :> <<"2","0","2","4","-","1","1","-","0","8","T","1","6",":","0","0",":","0","0","Z">>

\* app[field] where the field holds a string: its characters
stringOf(app, field) ==
  IF field \in {"firstName", "lastName", "email"} THEN app[field] ELSE spelling[app[field]]

(***************************************************************************)
(* components/ApplicationsList.js (ApplicationsListResponsive.js holds the *)
(* same state and handlers).                                               *)
(***************************************************************************)
itemsPerPage == 5

\* the records that pass the status filter, in the order of the collection
filtered ==
  SelectSeq(applications,
            LAMBDA app : filterStatus = "all" \/ app.status = filterStatus)

\* the comparator handed to sort(): the keys are lower-cased when they are
\* strings; it answers 1 or -1, never 0 (x and y are the two keys, each
\* computed once)
compareFn(a, b, field, direction) ==
  LET isString == field \notin {"id", "salary"}
      aVal == IF isString THEN toLowerCase(stringOf(a, field)) ELSE a[field]
      bVal == IF isString THEN toLowerCase(stringOf(b, field)) ELSE b[field]
      aLess == \E x \in {aVal}, y \in {bVal} :
                 IF isString THEN stringLess(x, y) ELSE x < y
      aGreater == \E x \in {aVal}, y \in {bVal} :
                    IF isString THEN stringLess(y, x) ELSE x > y
  IN IF direction = "asc"
     THEN IF aGreater THEN 1 ELSE -1
     ELSE IF aLess THEN 1 ELSE -1

\* one insertion step of the engine: new is placed behind the last element
\* of the sorted front that the engine's question leaves ahead of it
insert(front, new, field, direction, engine) ==
  LET stay == {j \in 1..Len(front) :
                 IF engine = "newVsOld"
                 THEN ~(compareFn(new, front[j], field, direction) < 0)
                 ELSE ~(compareFn(front[j], new, field, direction) > 0)}
      k == IF stay = {} THEN 0 ELSE CHOOSE j \in stay : \A i \in stay : i <= j
  IN SubSeq(front, 1, k) \o <<new>> \o SubSeq(front, k + 1, Len(front))

RECURSIVE sortFirst(_, _, _, _, _)
\* the first n elements of list, sorted by the engine: the first n - 1,
\* sorted, with the n-th inserted
sortFirst(list, n, field, direction, engine) ==
  IF n = 0
  THEN <<>>
  ELSE CHOOSE sorted \in {insert(front, new, field, direction, engine) :
                             front \in {sortFirst(list, n - 1, field, direction, engine)},
                             new \in {list[n]}} :
         TRUE

\* [...list].sort(compareFn) on the engine
sort(list, field, direction, engine) ==
  sortFirst(list, Len(list), field, direction, engine)

\* Array.prototype.slice(start, end) for 0 <= start
slice(list, start, end) ==
  SubSeq(list, start + 1, IF end < Len(list) THEN end ELSE Len(list))

\* useMemo: the records of the filter in the order of the sort
sortedAndFilteredData == sort(filtered, sortField, sortDirection, sortEngine)

\* mutant: a slice that ends one record late
pageOfOneMore(page) ==
  LET startIndex == (page - 1) * itemsPerPage
      endIndex == startIndex + itemsPerPage
  IN slice(sortedAndFilteredData, startIndex, endIndex + 1)

\* mutant: a slice that counts the pages from 0
pageOfNext(page) ==
  LET startIndex == page * itemsPerPage
      endIndex == startIndex + itemsPerPage
  IN slice(sortedAndFilteredData, startIndex, endIndex)

\* paginatedData for a current page of page
pageOf(page) ==
  LET startIndex == (page - 1) * itemsPerPage
      endIndex == startIndex + itemsPerPage
  IN slice(sortedAndFilteredData, startIndex, endIndex)

\* useMemo: the records of the page shown
paginatedData == pageOf(currentPage)

\* header: Total: {sortedAndFilteredData.length} applications
totalShown == Len(sortedAndFilteredData)

\* mutant: the page count of the whole collection
totalPagesUnfiltered == (Len(applications) + itemsPerPage - 1) \div itemsPerPage

\* Math.ceil(sortedAndFilteredData.length / itemsPerPage)
totalPages == (Len(filtered) + itemsPerPage - 1) \div itemsPerPage

\* mutant: a filter button that keeps the page
SetFilterKeepPage ==
  /\ view = "list"
  /\ \E status \in {"all", "submitted", "draft"} : filterStatus' = status
  /\ UNCHANGED <<applications, currentPage, sortField, sortDirection>>
  /\ UNCHANGED <<sortEngine, width, responsiveList>>
  /\ UNCHANGED appVars
  /\ UNCHANGED formVars

\* filter button onPress: setFilterStatus(status); setCurrentPage(1)
listFilter(status) ==
  /\ filterStatus' = status
  /\ currentPage' = 1
  /\ UNCHANGED <<applications, sortField, sortDirection>>

\* a press on one of the filter buttons
SetFilter ==
  /\ view = "list"
  /\ \E status \in {"all", "submitted", "draft"} : listFilter(status)
  /\ UNCHANGED <<sortEngine, width, responsiveList>>
  /\ UNCHANGED appVars
  /\ UNCHANGED formVars

\* mutant: a header press that goes back to the first page
handleSortFirstPage ==
  /\ view = "list"
  /\ \E field \in {"id", "firstName", "email", "country", "role", "salary", "status"} :
       IF sortField = field
       THEN /\ sortDirection' = IF sortDirection = "asc" THEN "desc" ELSE "asc"
            /\ sortField' = sortField
       ELSE /\ sortField' = field
            /\ sortDirection' = "asc"
  /\ currentPage' = 1
  /\ UNCHANGED <<applications, filterStatus>>
  /\ UNCHANGED <<sortEngine, width, responsiveList>>
  /\ UNCHANGED appVars
  /\ UNCHANGED formVars

\* the sortable column headers
listHeaders == {"id", "firstName", "email", "country", "role", "salary", "status"}

\* mutant: a handleSort that sorts the records themselves when no filter has
\* copied them
listSortInPlace(field) ==
  /\ IF sortField = field
     THEN /\ sortDirection' = IF sortDirection = "asc" THEN "desc" ELSE "asc"
          /\ sortField' = sortField
     ELSE /\ sortField' = field
          /\ sortDirection' = "asc"
  /\ applications' = IF filterStatus = "all"
                     THEN sort(applications, sortField', sortDirection', sortEngine)
                     ELSE applications
  /\ UNCHANGED <<currentPage, filterStatus>>

\* handleSort(field)
listSort(field) ==
  /\ IF sortField = field
     THEN /\ sortDirection' = IF sortDirection = "asc" THEN "desc" ELSE "asc"
          /\ sortField' = sortField
     ELSE /\ sortField' = field
          /\ sortDirection' = "asc"
  /\ UNCHANGED <<applications, currentPage, filterStatus>>

\* handleSort(field), called by the column headers
handleSort ==
  /\ view = "list"
  /\ \E field \in listHeaders : listSort(field)
  /\ UNCHANGED <<sortEngine, width, responsiveList>>
  /\ UNCHANGED appVars
  /\ UNCHANGED formVars

\* pagination Previous: rendered when totalPages > 1, disabled on page 1
listPrevious ==
  /\ totalPages > 1
  /\ currentPage # 1
  /\ currentPage' = IF currentPage - 1 > 1 THEN currentPage - 1 ELSE 1
  /\ UNCHANGED <<applications, sortField, sortDirection, filterStatus>>

\* a press on Previous
PagePrevious ==
  /\ view = "list"
  /\ listPrevious
  /\ UNCHANGED <<sortEngine, width, responsiveList>>
  /\ UNCHANGED appVars
  /\ UNCHANGED formVars

\* pagination Next: rendered when totalPages > 1, disabled on the last page
listNext ==
  /\ totalPages > 1
  /\ currentPage # totalPages
  /\ currentPage' = IF currentPage + 1 < totalPages THEN currentPage + 1 ELSE totalPages
  /\ UNCHANGED <<applications, sortField, sortDirection, filterStatus>>

\* a press on Next
PageNext ==
  /\ view = "list"
  /\ listNext
  /\ UNCHANGED <<sortEngine, width, responsiveList>>
  /\ UNCHANGED appVars
  /\ UNCHANGED formVars

\* page number buttons 1..totalPages: setCurrentPage(index + 1)
listPage(index) ==
  /\ totalPages > 1
  /\ index \in 0..(totalPages - 1)
  /\ currentPage' = index + 1
  /\ UNCHANGED <<applications, sortField, sortDirection, filterStatus>>

\* a press on one of the page numbers
PageNumber ==
  /\ view = "list"
  /\ \E index \in 0..(totalPages - 1) : listPage(index)
  /\ UNCHANGED <<sortEngine, width, responsiveList>>
  /\ UNCHANGED appVars
  /\ UNCHANGED formVars

\* record lists of every length up to MaxRows: the records of mockData.js,
\* cut short or followed by further records with the next ids
rows(n) ==
  [i \in 1..n |->
     [mockApplications[((i - 1) % Len(mockApplications)) + 1] EXCEPT !.id = i]]

\* the App showing a list, no form in the tree
ListShown ==
  /\ view = "list"
  /\ editingApplication = <<>>
  /\ savedDrafts = <<>>
  /\ now = 1000
  /\ submitted = <<>>
  /\ lastDraft = <<>>
  /\ alerted = <<>>
  /\ step = 0
  /\ formData = emptyFormData
  /\ values = emptyFormData
  /\ availableCities = <<>>
  /\ availableRoles = <<>>
  /\ selectedRole = 0
  /\ isOpen = ""
  /\ effects = {}
  /\ pending = <<>>

\* the App showing the list of one of these collections
InitList ==
  /\ ListShown
  /\ \E n \in 0..MaxRows : ListInit(rows(n), {BREAKPOINTS.desktop})

NextList ==
  \/ SetFilter
  \/ handleSort
  \/ PagePrevious
  \/ PageNext
  \/ PageNumber

SpecList == InitList /\ [][NextList]_vars

(***************************************************************************)
(* utils/useResponsive.js: the hook.                                       *)
(***************************************************************************)
isMobile == width < BREAKPOINTS.tablet

\* mutant: a tablet range that starts above the breakpoint
isTabletAbove == width > BREAKPOINTS.tablet /\ width < BREAKPOINTS.desktop

isTablet == width >= BREAKPOINTS.tablet /\ width < BREAKPOINTS.desktop

isDesktop == width >= BREAKPOINTS.desktop

\* responsive(mobile, tablet, desktop): the value for the width
responsive(mobile, tablet, desktop) ==
  IF width >= BREAKPOINTS.desktop
  THEN desktop
  ELSE IF width >= BREAKPOINTS.tablet THEN tablet ELSE mobile

\* mutant: a resize that mounts the responsive list anew
ResizeRemount(widths) ==
  /\ view = "list"
  /\ \E w \in widths : width' = w
  /\ responsiveList' = responsiveInitial
  /\ UNCHANGED <<applications, currentPage, sortField, sortDirection,
                 filterStatus, sortEngine>>
  /\ UNCHANGED appVars
  /\ UNCHANGED formVars

\* the Dimensions 'change' listener: setDimensions({ window, screen })
Resize(widths) ==
  /\ view = "list"
  /\ \E w \in widths : width' = w
  /\ UNCHANGED <<applications, currentPage, sortField, sortDirection,
                 filterStatus, sortEngine, responsiveList>>
  /\ UNCHANGED appVars
  /\ UNCHANGED formVars

\* a window of any width, resized to any width
InitWidth ==
  /\ ListShown
  /\ ListInit(mockApplications, 0..MaxWidth)

NextWidth == Resize(0..MaxWidth)

SpecWidth == InitWidth /\ [][NextWidth]_vars

(***************************************************************************)
(* components/ApplicationsListResponsive.js, over the same records.        *)
(***************************************************************************)
responsiveItemsPerPage == 5

responsiveFiltered ==
  SelectSeq(applications,
            LAMBDA app : \/ responsiveList.filterStatus = "all"
                         \/ app.status = responsiveList.filterStatus)

\* useMemo: sortedAndFilteredData
responsiveSortedAndFilteredData ==
  sort(responsiveFiltered, responsiveList.sortField,
       responsiveList.sortDirection, sortEngine)

\* useMemo: paginatedData
responsivePaginatedData ==
  LET startIndex == (responsiveList.currentPage - 1) * responsiveItemsPerPage
      endIndex == startIndex + responsiveItemsPerPage
  IN slice(responsiveSortedAndFilteredData, startIndex, endIndex)

\* Math.ceil(sortedAndFilteredData.length / itemsPerPage)
responsiveTotalPages ==
  (Len(responsiveFiltered) + responsiveItemsPerPage - 1) \div responsiveItemsPerPage

\* the sortable headers: seven in the desktop table, four in the tablet
\* table, none above the mobile cards
responsiveHeaders ==
  IF isMobile
  THEN {}
  ELSE (IF isDesktop
        THEN {"id", "firstName", "email", "country", "role", "salary", "status"}
        ELSE {})
       \cup (IF isTablet THEN {"firstName", "email", "role", "status"} ELSE {})

\* filter button onPress: setFilterStatus(status); setCurrentPage(1)
responsiveFilter(status) ==
  responsiveList' =
    [responsiveList EXCEPT !.filterStatus = status, !.currentPage = 1]

\* handleSort(field)
responsiveSort(field) ==
  responsiveList' =
    IF responsiveList.sortField = field
    THEN [responsiveList EXCEPT
            !.sortDirection = IF @ = "asc" THEN "desc" ELSE "asc"]
    ELSE [responsiveList EXCEPT !.sortField = field, !.sortDirection = "asc"]

\* pagination Previous: rendered when totalPages > 1, disabled on page 1
responsivePrevious ==
  /\ responsiveTotalPages > 1
  /\ responsiveList.currentPage # 1
  /\ responsiveList' =
       [responsiveList EXCEPT !.currentPage = IF @ - 1 > 1 THEN @ - 1 ELSE 1]

\* pagination Next: rendered when totalPages > 1, disabled on the last page
responsiveNext ==
  /\ responsiveTotalPages > 1
  /\ responsiveList.currentPage # responsiveTotalPages
  /\ responsiveList' =
       [responsiveList EXCEPT
          !.currentPage = IF @ + 1 < responsiveTotalPages
                          THEN @ + 1
                          ELSE responsiveTotalPages]

\* page number buttons 1..totalPages: setCurrentPage(index + 1)
responsivePage(index) ==
  /\ responsiveTotalPages > 1
  /\ index \in 0..(responsiveTotalPages - 1)
  /\ responsiveList' = [responsiveList EXCEPT !.currentPage = index + 1]

(***************************************************************************)
(* The two lists side by side over the same records, each control pressed  *)
(* on both, in a window that is resized between the presses.               *)
(***************************************************************************)
\* a mobile, a tablet and a desktop window
layoutWidths ==
  {BREAKPOINTS.tablet - 1, BREAKPOINTS.tablet, BREAKPOINTS.desktop}

BothFilter ==
  /\ view = "list"
  /\ \E status \in {"all", "submitted", "draft"} :
       listFilter(status) /\ responsiveFilter(status)
  /\ UNCHANGED <<sortEngine, width>>
  /\ UNCHANGED appVars
  /\ UNCHANGED formVars

\* a header both lists show
BothSort ==
  /\ view = "list"
  /\ \E field \in listHeaders \cap responsiveHeaders :
       listSort(field) /\ responsiveSort(field)
  /\ UNCHANGED <<sortEngine, width>>
  /\ UNCHANGED appVars
  /\ UNCHANGED formVars

BothPrevious ==
  /\ view = "list"
  /\ listPrevious /\ responsivePrevious
  /\ UNCHANGED <<sortEngine, width>>
  /\ UNCHANGED appVars
  /\ UNCHANGED formVars

BothNext ==
  /\ view = "list"
  /\ listNext /\ responsiveNext
  /\ UNCHANGED <<sortEngine, width>>
  /\ UNCHANGED appVars
  /\ UNCHANGED formVars

BothPage ==
  /\ view = "list"
  /\ \E index \in 0..(totalPages - 1) : listPage(index) /\ responsivePage(index)
  /\ UNCHANGED <<sortEngine, width>>
  /\ UNCHANGED appVars
  /\ UNCHANGED formVars

InitBoth ==
  /\ ListShown
  /\ \E n \in 0..MaxRows : ListInit(rows(n), layoutWidths)

NextBoth ==
  \/ BothFilter
  \/ BothSort
  \/ BothPrevious
  \/ BothNext
  \/ BothPage
  \/ Resize(layoutWidths)

SpecBoth == InitBoth /\ [][NextBoth]_vars

(***************************************************************************)
(* Properties.                                                             *)
(***************************************************************************)
\* the selection of a dependent dropdown is unset or an option of its parent
Selected(options, id) == id = 0 \/ Exists(options, id)

\* C1: once the effects of a field change have run, cityId is 0 or the id
\* of a city of citiesByCountry[countryId], and roleId is 0 or the id of a
\* role of rolesByIndustry[industryId].
C1_NoStaleSelection ==
  (view = "form" /\ effects = {}) =>
    /\ Selected(CitiesOf(values.countryId), values.cityId)
    /\ Selected(RolesOf(values.industryId), values.roleId)

\* a city picked under one country was cleared by the change to another
C1_Witness ==
  /\ view = "form"
  /\ effects = {}
  /\ formData.cityId # 0
  /\ values.countryId # formData.countryId
  /\ values.cityId = 0

\* C2: in no state of the mounted form, rendered or open to a user action,
\* does a dependent field hold a selection of a previous parent or a
\* dropdown list the options of a previous parent.
C2_CascadeAtomic ==
  view = "form" =>
    /\ Selected(CitiesOf(values.countryId), values.cityId)
    /\ availableCities = <<>> \/ availableCities = CitiesOf(values.countryId)
    /\ Selected(RolesOf(values.industryId), values.roleId)
    /\ availableRoles = <<>> \/ availableRoles = RolesOf(values.industryId)

\* C3: the dependent dropdown is disabled, is not open and takes no value
\* while its source is unset or the source's id has no options; once the
\* effects have run, a source id without options leaves the dependent at 0.
C3_State ==
  view = "form" =>
    /\ (values.countryId = 0 \/ CitiesOf(values.countryId) = <<>>) =>
         /\ cityDisabled
         /\ isOpen # "cityId"
         /\ effects = {} => values.cityId = 0
    /\ (values.industryId = 0 \/ RolesOf(values.industryId) = <<>>) =>
         /\ roleDisabled
         /\ isOpen # "roleId"
         /\ effects = {} => values.roleId = 0

C3_Step ==
  /\ (view = "form" /\ cityDisabled) => values'.cityId \in {values.cityId, 0}
  /\ (view = "form" /\ roleDisabled) => values'.roleId \in {values.roleId, 0}

C3_DisabledWithoutOptions == [](C3_State) /\ [][C3_Step]_vars

\* the city dropdown is rendered for a country id the table does not know
C3_Witness ==
  /\ view = "form"
  /\ effects = {}
  /\ step = 2
  /\ values.countryId # 0
  /\ values.countryId \notin DOMAIN citiesByCountry
  /\ values.cityId = 0
  /\ cityDisabled

\* C4: the rest of a Next whose validation failed changes neither the step
\* nor formData nor the field values; the validation it reports is that of
\* the current step's schema on the current values.
C4_Step ==
  /\ (/\ view = "form" /\ view' = "form"
      /\ pending # <<>>
      /\ Head(pending).kind = "next"
      /\ ~Head(pending).isValid
      /\ pending' = Tail(pending))
       => (step' = step /\ formData' = formData /\ values' = values)
  /\ (/\ Len(pending') = Len(pending) + 1
      /\ pending'[Len(pending')].kind = "next")
       => (pending'[Len(pending')].isValid <=> getStepSchema(step, values) = {})

C4_FailedNextKeepsState == [][C4_Step]_vars

\* a Next failed on step 2 and left the form there
C4_Witness ==
  /\ view = "form"
  /\ step = 2
  /\ pending = <<>>
  /\ alerted = <<"Please fix the errors before continuing">>
  /\ getStepSchema(2, values) # {}
  /\ formData.countryId = 0
  /\ values.countryId # 0

\* C5: the step goes from K to K+1 only from a state in which the fields of
\* step K satisfy the schema of step K.
C5_Step == (step >= 1 /\ step' = step + 1) => getStepSchema(step, values) = {}

C5_AdvanceOnlyWhenValid == [][C5_Step]_vars

\* C6: Previous is available on every step above 1 whether or not the step
\* validates; the step it takes (the step lowered by one with no suspended
\* Next resumed) keeps every field value, merges the values into formData
\* and shows no validation alert.
C6_Step ==
  (Idle /\ step > 1 /\ step' = step - 1 /\ pending' = pending) =>
    /\ values' = values
    /\ formData' = Merge(formData, values)
    /\ alerted' = alerted
    /\ view' = view

C6_PreviousUnconditional ==
  /\ []((Idle /\ step > 1) => ENABLED handlePrevious)
  /\ [][C6_Step]_vars

\* Previous was taken from a step 2 that does not validate
C6_Witness ==
  /\ view = "form"
  /\ step = 1
  /\ values.countryId # 0
  /\ formData.countryId = values.countryId
  /\ getStepSchema(2, values) # {}

\* C7: from a form at rest on a step above 1, Previous and then Next lead
\* back to the same step (the field values are those before the two).
C7_BackAndForth ==
  (Idle /\ pending = <<>> /\ step > 1) =>
    LET back == step - 1
        forth == IF getStepSchema(back, values) = {} THEN back + 1 ELSE back
    IN  forth = step

\* C8: a Save as Draft that follows another of the same form yields a draft
\* with the same id and a savedAt that is not earlier.
C8_Step ==
  (lastDraft # <<>> /\ lastDraft' # <<>>) =>
    /\ lastDraft'[1].id = lastDraft[1].id
    /\ lastDraft'[1].savedAt >= lastDraft[1].savedAt

C8_StableDraftId == [][C8_Step]_vars

\* C9: the draft of a form initialized from a record carries the record's
\* id; the draft of a form initialized from none carries an id minted at
\* the save.
C9_DraftIdOfRecord ==
  (view = "form" /\ lastDraft # <<>>) =>
    IF "id" \in DOMAIN formData
    THEN lastDraft[1].id = formData.id
    ELSE lastDraft[1].id = lastDraft[1].savedAt

\* C10: no two saved drafts share an id; a save with an id already there
\* replaces that record in place and changes nothing else, a save with a
\* new id appends one record.
C10_Unique ==
  \A i, j \in DOMAIN savedDrafts : savedDrafts[i].id = savedDrafts[j].id => i = j

C10_Step ==
  savedDrafts' # savedDrafts =>
    LET draft == lastDraft'[1]
    IN  IF \E i \in DOMAIN savedDrafts : savedDrafts[i].id = draft.id
        THEN /\ Len(savedDrafts') = Len(savedDrafts)
             /\ \A i \in DOMAIN savedDrafts :
                  savedDrafts'[i] =
                    IF savedDrafts[i].id = draft.id THEN draft ELSE savedDrafts[i]
        ELSE savedDrafts' = Append(savedDrafts, draft)

C10_DraftsKeyedById == [](C10_Unique) /\ [][C10_Step]_vars

\* the first of two drafts was replaced after the second was appended
C10_Witness ==
  /\ Len(savedDrafts) = 2
  /\ savedDrafts[1].savedAt > savedDrafts[2].savedAt

\* C11: Save as Draft is available on every step whether or not the fields
\* validate; the draft it logs holds the current value of every form field
\* (the step's values merged over formData) and the status 'draft', and the
\* save changes neither the step nor a field value.
C11_Step ==
  (lastDraft' # <<>> /\ lastDraft' # lastDraft) =>
    LET draftData == Merge(formData, values)
        draft == lastDraft'[1]
    IN  /\ \A k \in DOMAIN draftData \ {"id", "status", "savedAt"} :
             draft[k] = draftData[k]
        /\ \A k \in DOMAIN emptyFormData : draft[k] = values[k]
        /\ draft.status = "draft"
        /\ step' = step
        /\ values' = values
        /\ formData' = formData

C11_DraftOfAllSteps ==
  /\ []((Idle /\ Len(savedDrafts) < MaxDrafts) => ENABLED handleSaveDraft)
  /\ [][C11_Step]_vars

\* a draft of a record whose status was 'submitted', saved on a step 2 that
\* does not validate, with the phone typed on step 1
C11_Witness ==
  /\ view = "form"
  /\ step = 2
  /\ getStepSchema(2, values) # {}
  /\ lastDraft # <<>>
  /\ lastDraft[1].status = "draft"
  /\ formData.status = "submitted"
  /\ lastDraft[1].phone = <<"5", "5", "5">>

\* C12: no record is handed to onSubmit whose expectedSalary is below the
\* minSalary of the role of its roleId; a submit that passes the step's
\* schema with such a salary hands over nothing, keeps the form open and
\* alerts the message naming the role's minimum.
C12_State ==
  submitted # <<>> =>
    /\ submitted[1].roleId \in DOMAIN minSalary
    /\ submitted[1].expectedSalary >= minSalary[submitted[1].roleId]

C12_Step ==
  (/\ view = "form"
   /\ pending # <<>>
   /\ pending' = Tail(pending)
   /\ Head(pending).kind = "submit"
   /\ Head(pending).isValid
   /\ Head(pending).data.roleId \in DOMAIN minSalary
   /\ Head(pending).data.expectedSalary < minSalary[Head(pending).data.roleId])
    => /\ submitted' = <<>>
       /\ view' = "form"
       /\ alerted' = <<"Minimum salary for", Head(pending).data.roleId, "is $",
                       minSalary[Head(pending).data.roleId]>>

C12_SalaryBelowMinimum == [](C12_State) /\ [][C12_Step]_vars

\* role 101 (minimum 80000) with salary 75000: the submit failed naming 80000
C12_Witness ==
  /\ view = "form"
  /\ step = 3
  /\ pending = <<>>
  /\ submitted = <<>>
  /\ values.roleId = 101
  /\ values.expectedSalary = 75000
  /\ getStepSchema(3, values) = {}
  /\ alerted = <<"Minimum salary for", 101, "is $", 80000>>

\* C13: the record handed to onSubmit has the status 'submitted'.
C13_SubmittedStatus ==
  submitted # <<>> =>
    /\ "status" \in DOMAIN submitted[1]
    /\ submitted[1].status = "submitted"

\* C14: the validation of step 3 fails on expectedSalary exactly when the
\* salary is below 1, whatever the minimum of the selected role; a Next never
\* alerts the salary message.
C14_State ==
  /\ view = "form" =>
       ("expectedSalary" \in getStepSchema(3, values) <=> values.expectedSalary < 1)
  /\ \A i \in DOMAIN pending :
       pending[i].kind = "submit" =>
         (pending[i].isValid <=>
            \A f \in SchemaFields(3) : pending[i].data[f] >= 1)

C14_Step ==
  (pending # <<>> /\ pending' = Tail(pending) /\ Head(pending).kind = "next")
    => alerted' \in {alerted, <<"Please fix the errors before continuing">>}

C14_SalaryRuleOnlyAtSubmit == [](C14_State) /\ [][C14_Step]_vars

\* the schema of step 3 passed a salary below the selected role's minimum
C14_Witness ==
  /\ view = "form"
  /\ pending # <<>>
  /\ Head(pending).kind = "submit"
  /\ Head(pending).isValid
  /\ Head(pending).data.expectedSalary < minSalary[Head(pending).data.roleId]
  /\ Head(pending).salaryError # <<>>

\* the rule of each field, one field at a time
FieldFails(f, v) ==
  CASE f = "firstName" -> Len(v.firstName) < 2
    [] f = "lastName" -> Len(v.lastName) < 2
    [] f = "email" -> ~IsEmail(v.email)
    [] f = "phone" -> ~IsPhone(v.phone)
    [] f = "address" -> Len(v.address) < 5
    [] f = "postalCode" -> Len(v.postalCode) < 3
    [] OTHER -> v[f] < 1

\* C15: the errors of a step's validation are the fields of the step whose
\* value fails its rule, all of them; the validation passes exactly when
\* there is none.
C15_AllViolatedFields ==
  view = "form" =>
    /\ getStepSchema(step, values) = {f \in SchemaFields(step) : FieldFails(f, values)}
    /\ \A i \in DOMAIN pending :
         pending[i].isValid <=>
           \A f \in SchemaFields(pending[i].step) : ~FieldFails(f, values)

\* a validation that failed on three fields of step 1 at once
C15_Witness ==
  /\ view = "form"
  /\ step = 1
  /\ pending = <<>>
  /\ alerted = <<"Please fix the errors before continuing">>
  /\ getStepSchema(1, values) = {"firstName", "lastName", "email"}

C17_PostalCodeNonEmpty ==
  /\ (view = "form" /\ step = 2) =>
       /\ "postalCode" \in getStepSchema(2, values) <=> Len(values.postalCode) = 0
       /\ "address" \in getStepSchema(2, values) <=> Len(values.address) < 5
  /\ \A i \in DOMAIN pending :
       (pending[i].step = 2 /\ values.countryId >= 1 /\ values.cityId >= 1) =>
         (pending[i].isValid <=>
            (Len(values.postalCode) >= 1 /\ Len(values.address) >= 5))

\* C18: each of the three filter buttons can be pressed whenever the list is
\* shown; a change of the filter puts the list on page 1, from any page, and
\* keeps the sort field and direction.
C18_Step ==
  filterStatus' # filterStatus =>
    /\ filterStatus' \in {"all", "submitted", "draft"}
    /\ currentPage' = 1
    /\ sortField' = sortField
    /\ sortDirection' = sortDirection
    /\ applications' = applications

C18_FilterResetsPage ==
  /\ [](view = "list" =>
          \A status \in {"all", "submitted", "draft"} :
            ENABLED (SetFilter /\ filterStatus' = status /\ currentPage' = 1))
  /\ [][C18_Step]_vars

\* a filter chosen on a list of several pages under a sort chosen before
C18_Witness ==
  /\ view = "list"
  /\ filterStatus = "submitted"
  /\ sortField = "salary"
  /\ currentPage = 1
  /\ totalPages > 1
  /\ Len(filtered) < Len(applications)

\* C19: a header press on the active sort field flips the direction, one on
\* another field makes it the sort field with direction asc; both keep the
\* page and the filter.
C19_Step ==
  (sortField' # sortField \/ sortDirection' # sortDirection) =>
    /\ IF sortField' = sortField
       THEN sortDirection' = (IF sortDirection = "asc" THEN "desc" ELSE "asc")
       ELSE sortDirection' = "asc"
    /\ sortField' \in {"id", "firstName", "email", "country", "role", "salary", "status"}
    /\ currentPage' = currentPage
    /\ filterStatus' = filterStatus
    /\ applications' = applications

C19_ToggleSort ==
  /\ [](view = "list" =>
          \A field \in {"id", "firstName", "email", "country", "role", "salary", "status"} :
            ENABLED (handleSort /\ sortField' = field))
  /\ [][C19_Step]_vars

\* the direction of a chosen field flipped to desc on page 2 under a filter
C19_Witness ==
  /\ view = "list"
  /\ sortField = "salary"
  /\ sortDirection = "desc"
  /\ currentPage = 2
  /\ filterStatus = "submitted"

\* C20: the page shown lies between 1 and the number of pages of the
\* filtered records, or is 1 when there is no such record.
C20_PageInRange ==
  view = "list" =>
    LET filteredCount ==
          Cardinality({i \in DOMAIN applications :
                         filterStatus = "all" \/ applications[i].status = filterStatus})
        pages == (filteredCount + itemsPerPage - 1) \div itemsPerPage
    IN  /\ currentPage >= 1
        /\ currentPage <= (IF pages > 1 THEN pages ELSE 1)

\* the last of three pages, and a filter that leaves a single page
C20_Witness ==
  /\ view = "list"
  /\ filterStatus = "all"
  /\ totalPages = 3
  /\ currentPage = 3
  /\ Cardinality({i \in DOMAIN applications : applications[i].status = "draft"})
       <= itemsPerPage

C22_Step ==
  /\ applications' = applications
  /\ (<<filterStatus, sortField, sortDirection, currentPage>>'
        = <<filterStatus, sortField, sortDirection, currentPage>>)
     => /\ paginatedData' = paginatedData
        /\ Len(sortedAndFilteredData)' = Len(sortedAndFilteredData)
        /\ totalPages' = totalPages

C23_New ==
  /\ view' = "form"
  /\ editingApplication' = <<>>
  /\ view = "list" \/ editingApplication # <<>>

C23_Step ==
  /\ C23_New =>
       (values' = emptyFormData /\ formData' = emptyFormData /\ step' = 1)
  /\ (/\ view = "form"
      /\ view' = "form"
      /\ Cardinality({f \in DOMAIN emptyFormData : values[f] # emptyFormData[f]}) > 1
      /\ values' = emptyFormData)
     => C23_New

C23_ResetOnlyByNewApplication == [][C23_Step]_vars

C25_Key(app) ==
  IF sortField \in {"id", "salary"}
  THEN app[sortField]
  ELSE toLowerCase(stringOf(app, sortField))

\* the active sort puts a strictly before b
C25_Ahead(a, b) ==
  IF sortField \in {"id", "salary"}
  THEN IF sortDirection = "asc" THEN C25_Key(a) < C25_Key(b) ELSE C25_Key(a) > C25_Key(b)
  ELSE IF sortDirection = "asc"
       THEN stringLess(C25_Key(a), C25_Key(b))
       ELSE stringLess(C25_Key(b), C25_Key(a))

\* position of a record in the collection
C25_Position(app) == CHOOSE i \in DOMAIN applications : applications[i] = app

\* C25: the derived list holds the filtered records in the order of a stable
\* sort by the active field: keys (strings lower-cased) non-decreasing for
\* asc and non-increasing for desc, records with equal keys in the order
\* they have in the collection.
C25_StableOrder ==
  view = "list" =>
    /\ Len(sortedAndFilteredData) = Len(filtered)
    /\ Range(sortedAndFilteredData) = Range(filtered)
    /\ \A i, j \in DOMAIN sortedAndFilteredData :
         i < j =>
           LET a == sortedAndFilteredData[i]
               b == sortedAndFilteredData[j]
           IN  /\ ~C25_Ahead(b, a)
               /\ ~C25_Ahead(a, b) => C25_Position(a) < C25_Position(b)

\* C26: the visible slice holds the records of the sorted filtered list at
\* the positions (page - 1) * pageSize up to, not including, that plus
\* pageSize: at most pageSize records, each matching the filter; the total
\* shown is the number of records of the collection that match the filter.
C26_VisibleSlice ==
  view = "list" =>
    LET first == (currentPage - 1) * itemsPerPage
        matching == {i \in DOMAIN applications :
                       filterStatus = "all" \/ applications[i].status = filterStatus}
    IN  /\ Len(paginatedData) <= itemsPerPage
        /\ \A k \in 1..itemsPerPage :
             IF first + k \in DOMAIN sortedAndFilteredData
             THEN /\ k \in DOMAIN paginatedData
                  /\ paginatedData[k] = sortedAndFilteredData[first + k]
             ELSE k \notin DOMAIN paginatedData
        /\ \A k \in DOMAIN paginatedData :
             filterStatus = "all" \/ paginatedData[k].status = filterStatus
        /\ totalShown = Cardinality(matching)

\* the second and last page of the seven submitted records out of eleven
C26_Witness ==
  /\ view = "list"
  /\ Len(applications) = 11
  /\ filterStatus = "submitted"
  /\ sortField = "salary"
  /\ currentPage = 2
  /\ Len(paginatedData) = 2
  /\ totalShown = 7

\* C27: the step of a form is 1, 2 or 3 whatever the sequence of Next,
\* Previous, Save as Draft and Submit, also when a Next completes after a
\* Previous or after a second Next was pressed.
C27_StepInRange == view = "form" => step \in {1, 2, 3}

\* the first of two Next presses made on step 2 has completed, the second is
\* still suspended
C27_Witness ==
  /\ view = "form"
  /\ step = 3
  /\ pending # <<>>
  /\ Head(pending).kind = "next"
  /\ Head(pending).step = 2
  /\ Head(pending).isValid

\* C28: once the effects have run, selectedRole is null when roleId is 0 and
\* is otherwise the option of rolesByIndustry[industryId] with the id roleId,
\* so that the salary check uses the minimum salary of the role selected.
C28_SelectedRoleOfRoleId ==
  (view = "form" /\ effects = {}) =>
    /\ IF values.roleId = 0
       THEN selectedRole = 0
       ELSE /\ Exists(RolesOf(values.industryId), values.roleId)
            /\ selectedRole = values.roleId
    /\ (salaryError # <<>>)
         = (/\ values.roleId # 0
            /\ values.expectedSalary # 0
            /\ values.expectedSalary < minSalary[values.roleId])

\* a form opened on a record with role 101 and a salary under its minimum,
\* after the effects of the mount and of a second render
C28_Witness ==
  /\ view = "form"
  /\ effects = {}
  /\ values.industryId = 1
  /\ values.roleId = 101
  /\ selectedRole = 101
  /\ availableRoles = RolesOf(1)
  /\ salaryError # <<>>

RECURSIVE C29_Pages(_)
\* the visible slices of the pages 1..last, one after the other
C29_Pages(last) == IF last = 0 THEN <<>> ELSE C29_Pages(last - 1) \o pageOf(last)

\* C29: the visible slices of the pages 1..ceil(filteredCount / pageSize),
\* one after the other, are the sorted filtered list: every record that
\* matches the filter is on exactly one page, once.
C29_PagesPartition ==
  view = "list" =>
    LET matching == {i \in DOMAIN applications :
                       filterStatus = "all" \/ applications[i].status = filterStatus}
        last == (Cardinality(matching) + itemsPerPage - 1) \div itemsPerPage
    IN  /\ C29_Pages(last) = sortedAndFilteredData
        /\ \E pages \in {[page \in 1..last |-> pageOf(page)]} :
             \A i \in matching :
               Cardinality({place \in (1..last) \X (1..itemsPerPage) :
                              /\ place[2] \in DOMAIN pages[place[1]]
                              /\ pages[place[1]][place[2]] = applications[i]}) = 1

\* eleven records on three pages, sorted by a field with equal keys
C29_Witness ==
  /\ view = "list"
  /\ Len(applications) = 11
  /\ filterStatus = "all"
  /\ sortField = "status"
  /\ sortDirection = "desc"
  /\ Len(pageOf(3)) = 1
  /\ C29_Pages(3) = sortedAndFilteredData

\* the two lists hold the same view state and show the same records
C30_Same ==
  view = "list" =>
    /\ responsiveList = [currentPage |-> currentPage, sortField |-> sortField,
                         sortDirection |-> sortDirection, filterStatus |-> filterStatus]
    /\ responsivePaginatedData = paginatedData
    /\ Len(responsiveSortedAndFilteredData) = totalShown
    /\ responsiveTotalPages = totalPages

\* a change of the width changes neither filter, sort nor page of a list
C30_Step ==
  width' # width =>
    /\ responsiveList' = responsiveList
    /\ <<filterStatus, sortField, sortDirection, currentPage>>'
         = <<filterStatus, sortField, sortDirection, currentPage>>

\* C30: started with filter all, sort createdAt desc and page 1 and driven
\* by the same filter, sort and page presses, ApplicationsList and
\* ApplicationsListResponsive hold the same view state and show the same
\* visible slice after every press, whatever the width of the window; a
\* change of the width alone changes neither filter, sort nor page.
C30_SameView == []C30_Same /\ [][C30_Step]_vars

\* both lists on page 2 of the submitted records by descending salary, in a
\* window narrowed to the mobile layout after the sort
C30_Witness ==
  /\ view = "list"
  /\ isMobile
  /\ filterStatus = "submitted"
  /\ sortField = "salary"
  /\ sortDirection = "desc"
  /\ currentPage = 2
  /\ responsiveList.currentPage = 2
  /\ responsiveList.sortField = "salary"
  /\ Len(responsivePaginatedData) = 2

====
